---- MODULE Spec2Model ----
(***************************************************************************)
(* Structural-health monitoring: the live dashboard state (src/app.py,     *)
(* AssetState with its request handlers and background updater) and the    *)
(* batch predictor (src/predict.py, AssetHealthPredictor).                 *)
(*                                                                         *)
(* Fixed-point units (all quantities are integers):                        *)
(*   damage accumulators   1e-6          (0.12      -> 120000)             *)
(*   health, probability   1e-8          (0.85      -> 85000000)           *)
(*   expected cost         0.01 rupee    (1_500_000 -> 150000000)          *)
(*   live sensor channels  1e-3          (380       -> 380000)             *)
(*   batch sample fields   load 1e-2 (0.65 -> 65), vibration 1e-4          *)
(*                         (0.15 -> 1500), pressure 1e-1, temperature and  *)
(*                         the ultrasonic channels in whole units          *)
(* A random.uniform(a, b) draw is a + (b - a) * q / 100 for a quantile q   *)
(* (in percent) taken from a small set.                                    *)
(***************************************************************************)
EXTENDS Integers, Sequences, FiniteSets, TLC

VARIABLES
    variant,    \* which program runs: "live" (app.py) or "batch" (predict.py)
    heap,       \* live: object id -> AssetState fields, or NoObj
    asset,      \* live: the module global `asset` (an object id)
    pc,         \* live: per thread, the statement it is about to execute
    self,       \* live: per thread, the object bound to `self` in update()
    rnd,        \* live: per thread, the quantiles its update() call draws
    steps,      \* live: update() calls started since the last construction
    last,       \* live: the last completed call, its caller and return value
    pred,       \* batch: the AssetHealthPredictor damage state
    presult     \* batch: outcome of the last update_damage / predict / reset

vars == <<variant, heap, asset, pc, self, rnd, steps, last, pred, presult>>

----------------------------------------------------------------------------
(* Bounds of the model *)

\* update() calls explored per constructed asset when handlers run atomically
MaxSteps == 40
\* update() calls explored per constructed asset when statements interleave
MaxConcSteps == 2
\* samples fed to the batch predictor per construction / reset
MaxSamples == 5

\* quantiles (percent) of the sensor and damage draws of one update() call
Quantiles == {0, 100}
\* quantiles (percent) of the failure-probability noise draw
NoiseQuantiles == {0, 50, 100}

Threads == {"driver", "req"}
ObjIds == {0, 1}
NoObj == [free |-> TRUE]
Null == -1

----------------------------------------------------------------------------
(* Arithmetic helpers *)

ONE == 100000000

Min(a, b) == IF a <= b THEN a ELSE b
Max(a, b) == IF a >= b THEN a ELSE b
Abs(x) == IF x < 0 THEN -x ELSE x

\* floor division that is also right for negative numerators
FloorDiv(x, d) == IF x >= 0 THEN x \div d ELSE -((-x + d - 1) \div d)

\* Python's round(): nearest multiple of d, ties to the even one; result in units of d
RoundHalfEven(x, d) ==
    LET f == FloorDiv(x, d)
        r == x - f * d
    IN  IF 2 * r < d THEN f
        ELSE IF 2 * r > d THEN f + 1
        ELSE IF f % 2 = 0 THEN f ELSE f + 1

\* int(): truncation toward zero, result in units of d
Trunc(x, d) == IF x >= 0 THEN x \div d ELSE -((-x) \div d)

\* random.uniform(a, b) at quantile q percent
Uniform(a, b, q) == a + ((b - a) * q) \div 100

\* np.sqrt to the precision of the unit: the greatest r in lo..hi with r*r <= n
RECURSIVE ISqrtBetween(_, _, _)
ISqrtBetween(n, lo, hi) ==
    IF lo >= hi THEN lo
    ELSE LET mid == (lo + hi + 1) \div 2
         IN  IF mid * mid <= n THEN ISqrtBetween(n, mid, hi)
             ELSE ISqrtBetween(n, lo, mid - 1)
ISqrt(n) == ISqrtBetween(n, 0, Min(n, 46340))

----------------------------------------------------------------------------
(* Decision policy: src/app.py 56-65, src/predict.py 72-84 *)

FAILURE_COST == 1000000000
INSPECTION_COST == 50000000
REPAIR_COST == 200000000

\* expected_cost = failure_prob * 10_000_000 (probability 1e-8, cost 0.01 rupee)
ExpectedCost(failure_prob) == failure_prob * (FAILURE_COST \div ONE)

DecideRepairFirst(expected_cost) ==
    IF expected_cost > REPAIR_COST
    THEN [decision |-> "SCHEDULE_REPAIR", color |-> "warning"]
    ELSE IF expected_cost > INSPECTION_COST
    THEN [decision |-> "IMMEDIATE_INSPECTION", color |-> "danger"]
    ELSE [decision |-> "CONTINUE_OPERATION", color |-> "success"]

\* lines 57-65 / 73-84 with both thresholds tested in descending order of
\* severity: repair is scheduled between 500_000 and 2_000_000
DecideByBand(expected_cost) ==
    IF expected_cost > REPAIR_COST
    THEN [decision |-> "IMMEDIATE_INSPECTION", color |-> "danger"]
    ELSE IF expected_cost > INSPECTION_COST
    THEN [decision |-> "SCHEDULE_REPAIR", color |-> "warning"]
    ELSE [decision |-> "CONTINUE_OPERATION", color |-> "success"]

Decide(expected_cost) ==
    IF expected_cost > INSPECTION_COST
    THEN [decision |-> "IMMEDIATE_INSPECTION", color |-> "danger"]
    ELSE IF expected_cost > REPAIR_COST
    THEN [decision |-> "SCHEDULE_REPAIR", color |-> "warning"]
    ELSE [decision |-> "CONTINUE_OPERATION", color |-> "success"]

----------------------------------------------------------------------------
(* Health score: src/app.py 46-47, src/predict.py 42-43 *)

\* 1 - (0.3*fatigue + 0.25*creep + 0.2*corrosion + 0.25*crack), unclamped
RawHealth(fatigue, creep, corrosion, crack) ==
    ONE - (30 * fatigue + 25 * creep + 20 * corrosion + 25 * crack)

LIVE_HEALTH_FLOOR == 10000000
BATCH_HEALTH_FLOOR == 0

ClampLiveHealth(h) == Max(LIVE_HEALTH_FLOOR, Min(ONE, h))

ClampBatchHealthNoFloor(h) == Min(ONE, h)
ClampBatchHealth(h) == Max(BATCH_HEALTH_FLOOR, Min(ONE, h))

----------------------------------------------------------------------------
(* AssetState: src/app.py 11-90 *)

FATIGUE_MAX == 500000
CREEP_MAX == 20000
CORROSION_MAX == 300000
CRACK_MAX == 400000

NewAssetState ==
    [ health          |-> 85000000,
      fatigue         |-> 120000,
      creep           |-> 8000,
      corrosion       |-> 150000,
      crack           |-> 90000,
      temperature     |-> 380000,
      pressure        |-> 18000,
      load            |-> 65000,
      vibration       |-> 150,
      ultrasonic_amp  |-> 45000,
      ultrasonic_time |-> 13000,
      failure_prob    |-> 15000000,
      expected_cost   |-> 150000000,
      decision        |-> "CONTINUE_OPERATION",
      decision_color  |-> "success",
      is_monitoring   |-> TRUE ]

\* lines 32-37
Sense(o, q) ==
    [o EXCEPT !.temperature     = 380000 + Uniform(-10000, 20000, q),
              !.pressure        = 18000 + Uniform(-1000, 3000, q),
              !.load            = 60000 + Uniform(-10000, 15000, q),
              !.vibration       = 100 + Uniform(0, 200, q),
              !.ultrasonic_amp  = 40000 + Uniform(0, 20000, q),
              !.ultrasonic_time = 12000 + Uniform(0, 4000, q)]

\* line 40
UpdFatigue(o, q) ==
    [o EXCEPT !.fatigue = Min(FATIGUE_MAX, o.fatigue + Uniform(-5000, 10000, q))]
\* line 41
UpdCreep(o, q) ==
    [o EXCEPT !.creep = Min(CREEP_MAX, o.creep + Uniform(-100, 300, q))]
\* line 42
UpdCorrosion(o, q) ==
    [o EXCEPT !.corrosion = Min(CORROSION_MAX, o.corrosion + Uniform(-2000, 5000, q))]
\* line 43
UpdCrack(o, q) ==
    [o EXCEPT !.crack = Min(CRACK_MAX, o.crack + Uniform(-3000, 8000, q))]

\* line 46
CalcHealth(o) ==
    [o EXCEPT !.health = RawHealth(o.fatigue, o.creep, o.corrosion, o.crack)]
\* line 47
ClampHealth(o) == [o EXCEPT !.health = ClampLiveHealth(o.health)]

\* line 50: (1 - health) * 0.8 + uniform(-0.05, 0.05)
CalcFailureProb(o, nq) ==
    [o EXCEPT !.failure_prob =
        ((ONE - o.health) * 8) \div 10 + Uniform(-5000000, 5000000, nq)]
\* line 51 without the max(0.0, ...): only the upper bound is enforced
ClampFailureProbNoFloor(o) ==
    [o EXCEPT !.failure_prob = Min(ONE, o.failure_prob)]

\* line 51
ClampFailureProb(o) ==
    [o EXCEPT !.failure_prob = Max(0, Min(ONE, o.failure_prob))]

\* line 54
CalcExpectedCost(o) ==
    [o EXCEPT !.expected_cost = ExpectedCost(o.failure_prob)]

\* lines 57-65
MakeDecision(o) ==
    [o EXCEPT !.decision       = Decide(o.expected_cost).decision,
              !.decision_color = Decide(o.expected_cost).color]

\* lines 69-90 (the timestamp is the wall clock and is left out)
GetData(o) ==
    [ health               |-> o.health,
      health_percent       |-> RoundHalfEven(o.health, 1000000),
      fatigue              |-> o.fatigue,
      creep                |-> o.creep,
      corrosion            |-> o.corrosion,
      crack                |-> o.crack,
      temperature          |-> RoundHalfEven(o.temperature, 100),
      pressure             |-> RoundHalfEven(o.pressure, 100),
      load                 |-> RoundHalfEven(o.load, 100),
      vibration            |-> RoundHalfEven(o.vibration, 1),
      ultrasonic_amp       |-> RoundHalfEven(o.ultrasonic_amp, 100),
      ultrasonic_time      |-> RoundHalfEven(o.ultrasonic_time, 100),
      failure_prob         |-> o.failure_prob,
      failure_prob_percent |-> RoundHalfEven(o.failure_prob, 100000),
      expected_cost        |-> Trunc(o.expected_cost, 100),
      decision             |-> o.decision,
      decision_color       |-> o.decision_color,
      is_monitoring        |-> o.is_monitoring ]

\* lines 32-65 in order
UpdatePipeline(o, q, nq) ==
    MakeDecision(CalcExpectedCost(ClampFailureProb(CalcFailureProb(
        ClampHealth(CalcHealth(
            UpdCrack(UpdCorrosion(UpdCreep(UpdFatigue(Sense(o, q), q), q), q), q))),
        nq))))

UpdateOnlyWhileMonitoring(o, q, nq) ==
    IF o.is_monitoring THEN UpdatePipeline(o, q, nq) ELSE o

\* lines 30-65: update() runs its statements whatever self.is_monitoring is
UpdateBody(o, q, nq) == UpdatePipeline(o, q, nq)

----------------------------------------------------------------------------
(* Live program, handlers taken as atomic calls: src/app.py 92-176 *)

Message(m) == [status |-> "success", kind |-> "message", message |-> m]
Data(d) == [status |-> "success", kind |-> "data", data |-> d]
NoReturn == [status |-> "none", kind |-> "none"]

\* a completed call: what was called, by which thread, what it returned, and
\* the monitoring flag and update count of the global asset as its last
\* statement began
Call(op, by, ret) ==
    [ op |-> op, by |-> by, ret |-> ret,
      pre_mon |-> heap[asset].is_monitoring, pre_steps |-> steps ]

\* objects some thread still holds as `self`
HeldIds == {self[t] : t \in Threads} \ {Null}

\* identity of a newly constructed object: the least id no thread holds (the
\* identity of an object nobody references any more is reused)
Alloc == CHOOSE i \in ObjIds \ HeldIds : \A j \in ObjIds \ HeldIds : i <= j

Idle == pc["req"] = "idle" /\ pc["driver"] = "d_check"

\* lines 109-116: /api/update calls asset.update() whatever the monitoring flag
ReqUpdate ==
    /\ variant = "live" /\ Idle /\ steps < MaxSteps
    /\ \E q \in Quantiles, nq \in NoiseQuantiles :
         LET o == UpdateBody(heap[asset], q, nq)
         IN  /\ heap' = [heap EXCEPT ![asset] = o]
             /\ last' = Call("update", "req", Data(GetData(o)))
    /\ steps' = steps + 1
    /\ UNCHANGED <<variant, asset, pc, self, rnd, pred, presult>>

\* lines 167-172, flag set: one iteration of the loop that calls asset.update()
DriverUpdate ==
    /\ variant = "live" /\ Idle /\ steps < MaxSteps
    /\ heap[asset].is_monitoring
    /\ \E q \in Quantiles, nq \in NoiseQuantiles :
         heap' = [heap EXCEPT ![asset] = UpdateBody(@, q, nq)]
    /\ last' = Call("update", "driver", NoReturn)
    /\ steps' = steps + 1
    /\ UNCHANGED <<variant, asset, pc, self, rnd, pred, presult>>

\* lines 167-172, flag clear: the iteration only sleeps
DriverSkip ==
    /\ variant = "live" /\ Idle
    /\ ~heap[asset].is_monitoring
    /\ last' = Call("skip", "driver", NoReturn)
    /\ UNCHANGED <<variant, heap, asset, pc, self, rnd, steps, pred, presult>>

\* lines 100-107
ReqGetData ==
    /\ variant = "live" /\ pc["req"] = "idle"
    /\ last' = Call("get_data", "req", Data(GetData(heap[asset])))
    /\ UNCHANGED <<variant, heap, asset, pc, self, rnd, steps, pred, presult>>

\* lines 118-125
ReqStart ==
    /\ variant = "live" /\ pc["req"] = "idle"
    /\ heap' = [heap EXCEPT ![asset].is_monitoring = TRUE]
    /\ last' = Call("start", "req", Message("Monitoring started"))
    /\ UNCHANGED <<variant, asset, pc, self, rnd, steps, pred, presult>>

\* lines 127-134
ReqStop ==
    /\ variant = "live" /\ pc["req"] = "idle"
    /\ heap' = [heap EXCEPT ![asset].is_monitoring = FALSE]
    /\ last' = Call("stop", "req", Message("Monitoring stopped"))
    /\ UNCHANGED <<variant, asset, pc, self, rnd, steps, pred, presult>>

ResetKeepsFlag == [NewAssetState EXCEPT !.is_monitoring = heap[asset].is_monitoring]
ResetKeepsFatigue == [NewAssetState EXCEPT !.fatigue = heap[asset].fatigue]
\* line 140: the object the global names after reset()
ResetObject == NewAssetState

\* lines 136-144: a new AssetState replaces the global; an update() still
\* running on the old object keeps writing to the old object
ReqReset ==
    /\ variant = "live" /\ pc["req"] = "idle"
    /\ asset' = Alloc
    /\ heap' = [i \in ObjIds |->
                  IF i = Alloc THEN ResetObject
                  ELSE IF i \in HeldIds THEN heap[i] ELSE NoObj]
    /\ steps' = 0
    /\ last' = Call("reset", "req", Message("System reset"))
    /\ UNCHANGED <<variant, pc, self, rnd, pred, presult>>

----------------------------------------------------------------------------
(* Live program, statement by statement: the request thread and the        *)
(* background thread share `asset` without any lock (src/app.py 166-176)   *)

UpdateLabels ==
    {"u_sense", "u_fatigue", "u_creep", "u_corrosion", "u_crack", "u_health",
     "u_health_clamp", "u_prob", "u_prob_clamp", "u_cost", "u_decide", "u_return"}

\* statements of update() that have written to self and not yet returned
MidUpdateLabels == UpdateLabels \ {"u_sense"}

\* where a thread continues after update() returns
AfterUpdate(t) == IF t = "driver" THEN "d_sleep" ELSE "idle"

\* the statement of update() at label l applied to object o
Statement(l, o, r) ==
    CASE l = "u_sense"        -> Sense(o, r.q)
      [] l = "u_fatigue"      -> UpdFatigue(o, r.q)
      [] l = "u_creep"        -> UpdCreep(o, r.q)
      [] l = "u_corrosion"    -> UpdCorrosion(o, r.q)
      [] l = "u_crack"        -> UpdCrack(o, r.q)
      [] l = "u_health"       -> CalcHealth(o)
      [] l = "u_health_clamp" -> ClampHealth(o)
      [] l = "u_prob"         -> CalcFailureProb(o, r.nq)
      [] l = "u_prob_clamp"   -> ClampFailureProb(o)
      [] l = "u_cost"         -> CalcExpectedCost(o)
      [] l = "u_decide"       -> MakeDecision(o)

NextLabel(l) ==
    CASE l = "u_sense"        -> "u_fatigue"
      [] l = "u_fatigue"      -> "u_creep"
      [] l = "u_creep"        -> "u_corrosion"
      [] l = "u_corrosion"    -> "u_crack"
      [] l = "u_crack"        -> "u_health"
      [] l = "u_health"       -> "u_health_clamp"
      [] l = "u_health_clamp" -> "u_prob"
      [] l = "u_prob"         -> "u_prob_clamp"
      [] l = "u_prob_clamp"   -> "u_cost"
      [] l = "u_cost"         -> "u_decide"
      [] l = "u_decide"       -> "u_return"

NoDraw == [q |-> 0, nq |-> 0]

\* the draws of one update() call when statements interleave: all at the low
\* end or all at the high end of their ranges
ConcDraws == {[q |-> 0, nq |-> 0], [q |-> 100, nq |-> 100]}

\* asset.update(): the global is read and bound to self (lines 112, 171)
EnterUpdate(t) ==
    /\ steps < MaxConcSteps
    /\ self' = [self EXCEPT ![t] = asset]
    /\ \E d \in ConcDraws : rnd' = [rnd EXCEPT ![t] = d]
    /\ pc' = [pc EXCEPT ![t] = "u_sense"]
    /\ steps' = steps + 1
    /\ UNCHANGED <<variant, heap, asset, last, pred, presult>>

\* line 112
ReqCallUpdate ==
    /\ variant = "live" /\ pc["req"] = "idle"
    /\ EnterUpdate("req")

\* line 170
DriverCheck ==
    /\ variant = "live" /\ pc["driver"] = "d_check"
    /\ pc' = [pc EXCEPT !["driver"] =
                IF heap[asset].is_monitoring THEN "d_call" ELSE "d_sleep"]
    /\ UNCHANGED <<variant, heap, asset, self, rnd, steps, last, pred, presult>>

\* line 171
DriverCallUpdate ==
    /\ variant = "live" /\ pc["driver"] = "d_call"
    /\ EnterUpdate("driver")

\* line 172
DriverSleep ==
    /\ variant = "live" /\ pc["driver"] = "d_sleep"
    /\ pc' = [pc EXCEPT !["driver"] = "d_check"]
    /\ UNCHANGED <<variant, heap, asset, self, rnd, steps, last, pred, presult>>

\* one of lines 32-65, run by thread t on its self
UpdateStatement(t) ==
    /\ variant = "live" /\ pc[t] \in UpdateLabels \ {"u_return"}
    /\ heap' = [heap EXCEPT ![self[t]] = Statement(pc[t], @, rnd[t])]
    /\ pc' = [pc EXCEPT ![t] = NextLabel(pc[t])]
    /\ UNCHANGED <<variant, asset, self, rnd, steps, last, pred, presult>>

\* line 67: return self.get_data(); an object nobody references is released
UpdateReturn(t) ==
    /\ variant = "live" /\ pc[t] = "u_return"
    /\ last' = Call("update", t,
                    IF t = "req" THEN Data(GetData(heap[self[t]])) ELSE NoReturn)
    /\ heap' = [i \in ObjIds |->
                  IF i = self[t] /\ i # asset
                     /\ \A u \in Threads \ {t} : self[u] # i
                  THEN NoObj ELSE heap[i]]
    /\ self' = [self EXCEPT ![t] = Null]
    /\ rnd' = [rnd EXCEPT ![t] = NoDraw]
    /\ pc' = [pc EXCEPT ![t] = AfterUpdate(t)]
    /\ UNCHANGED <<variant, asset, steps, pred, presult>>

----------------------------------------------------------------------------
(* Batch predictor: src/predict.py 6-110 *)

None == <<>>
Some(x) == <<x>>

\* lines 13-17 and 106-110
NewPredictor ==
    [fatigue |-> 0, creep |-> 0, corrosion |-> 0, crack |-> 0, prev_load |-> None]

SampleFields ==
    {"temperature", "pressure", "load", "vibration_x", "vibration_y",
     "ultrasonic_amplitude", "ultrasonic_time"}

\* the sample of main(), lines 120-128
MainSample ==
    [ present |-> SampleFields,
      temperature |-> 385, pressure |-> 186, load |-> 65,
      vibration_x |-> 1500, vibration_y |-> 1000,
      ultrasonic_amplitude |-> 48, ultrasonic_time |-> 13 ]

\* a second reading with another load
NextSample ==
    [ present |-> SampleFields,
      temperature |-> 380, pressure |-> 180, load |-> 80,
      vibration_x |-> 300, vibration_y |-> 400,
      ultrasonic_amplitude |-> 50, ultrasonic_time |-> 13 ]

\* a reading far below zero degrees with a silent ultrasonic channel
ColdSample ==
    [ present |-> SampleFields,
      temperature |-> -200, pressure |-> 10, load |-> 65,
      vibration_x |-> 0, vibration_y |-> 0,
      ultrasonic_amplitude |-> 0, ultrasonic_time |-> 0 ]

\* a reading whose load is given in percent, as the live program gives it
PercentLoadSample ==
    [ present |-> SampleFields,
      temperature |-> 385, pressure |-> 186, load |-> 9500,
      vibration_x |-> 1500, vibration_y |-> 1000,
      ultrasonic_amplitude |-> 48, ultrasonic_time |-> 13 ]

Without(s, f) == [s EXCEPT !.present = @ \ {f}]

Samples ==
    {MainSample, NextSample, ColdSample, PercentLoadSample}
    \cup {Without(MainSample, f) : f \in SampleFields}
    \cup {Without(NextSample, "vibration_x")}

\* model.predict_proba(...)[0, 1]: the classifier is outside the program
Probabilities == {0, 5000000, 6000000, 20000000, 30000000, ONE}

Has(s, f) == f \in s.present

\* the run of update_damage so far: the predictor, whether no KeyError was
\* raised yet, and the locals
Running(p) == [p |-> p, ok |-> TRUE, vibration_mag |-> 0, load_delta |-> 0, health |-> 0]
Raise(e) == [e EXCEPT !.ok = FALSE]

\* lines 26-27
InitPrevLoad(e, s) ==
    IF ~e.ok \/ e.p.prev_load # None THEN e
    ELSE IF ~Has(s, "load") THEN Raise(e)
    ELSE [e EXCEPT !.p.prev_load = Some(s.load)]

\* lines 30-31
CalcVibration(e, s) ==
    IF ~e.ok THEN e
    ELSE IF ~(Has(s, "vibration_x") /\ Has(s, "vibration_y")) THEN Raise(e)
    ELSE [e EXCEPT !.vibration_mag =
            ISqrt(s.vibration_x * s.vibration_x + s.vibration_y * s.vibration_y)]

\* line 34: fatigue += 0.02 * |load - prev_load| + 0.01 * vibration_mag
AddFatigue(e, s) ==
    IF ~e.ok THEN e
    ELSE IF ~Has(s, "load") THEN Raise(e)
    ELSE LET d == Abs(s.load - e.p.prev_load[1])
         IN  [e EXCEPT !.load_delta = 200 * d,
                       !.p.fatigue = @ + 200 * d + e.vibration_mag]

\* line 35: creep += 0.00001 * temperature
AddCreep(e, s) ==
    IF ~e.ok THEN e
    ELSE IF ~Has(s, "temperature") THEN Raise(e)
    ELSE [e EXCEPT !.p.creep = @ + 10 * s.temperature]

\* line 36
AddCorrosion(e, s) ==
    IF ~e.ok THEN e ELSE [e EXCEPT !.p.corrosion = @ + 1000]

\* line 37: crack += 0.0005 * ultrasonic_amplitude + 0.001 * ultrasonic_time
AddCrack(e, s) ==
    IF ~e.ok THEN e
    ELSE IF ~(Has(s, "ultrasonic_amplitude") /\ Has(s, "ultrasonic_time")) THEN Raise(e)
    ELSE [e EXCEPT !.p.crack = @ + 500 * s.ultrasonic_amplitude + 1000 * s.ultrasonic_time]

\* line 39
SetPrevLoad(e, s) ==
    IF ~e.ok THEN e ELSE [e EXCEPT !.p.prev_load = Some(s.load)]

\* lines 42-43
CalcBatchHealth(e) ==
    IF ~e.ok THEN e
    ELSE [e EXCEPT !.health =
            ClampBatchHealth(RawHealth(e.p.fatigue, e.p.creep, e.p.corrosion, e.p.crack))]

\* lines 24-45
UpdateDamage(p, s) ==
    CalcBatchHealth(SetPrevLoad(AddCrack(AddCorrosion(AddCreep(AddFatigue(
        CalcVibration(InitPrevLoad(Running(p), s), s), s), s), s), s), s))

NoResult(op, n) ==
    [ op |-> op, ok |-> FALSE, n |-> n, health |-> 0, vibration_mag |-> 0,
      load_delta |-> 0, failure_probability |-> 0, expected_cost |-> 0,
      decision |-> "", color |-> "", load |-> None, done_load |-> None ]

\* lines 47-102: the dictionary predict() returns, or the KeyError it raises
PredictResult(e, prob, n) ==
    IF ~e.ok THEN NoResult("predict", n)
    ELSE [ op |-> "predict", ok |-> TRUE, n |-> n,
           health |-> e.health,
           vibration_mag |-> e.vibration_mag,
           load_delta |-> e.load_delta,
           failure_probability |-> prob,
           expected_cost |-> ExpectedCost(prob),
           decision |-> Decide(ExpectedCost(prob)).decision,
           color |-> Decide(ExpectedCost(prob)).color,
           load |-> None, done_load |-> None ]

\* the result of a call together with the load of the sample it was handed
\* and the load of the last sample processed without a KeyError since
\* construction or reset()
WithLoads(r, s, before) ==
    [r EXCEPT !.load = IF Has(s, "load") THEN Some(s.load) ELSE None,
              !.done_load = IF r.ok THEN Some(s.load) ELSE before.done_load]

Predict ==
    /\ variant = "batch" /\ presult.n < MaxSamples
    /\ \E s \in Samples, prob \in Probabilities :
         LET e == UpdateDamage(pred, s)
         IN  /\ pred' = e.p
             /\ presult' = WithLoads(PredictResult(e, prob, presult.n + 1),
                                     s, presult)
    /\ UNCHANGED <<variant, heap, asset, pc, self, rnd, steps, last>>

\* lines 104-110
PredictorReset ==
    /\ variant = "batch"
    /\ pred' = NewPredictor
    /\ presult' = [NoResult("reset", 0) EXCEPT !.ok = TRUE]
    /\ UNCHANGED <<variant, heap, asset, pc, self, rnd, steps, last>>

----------------------------------------------------------------------------
(* Specifications *)

InitLive ==
    /\ heap = [i \in ObjIds |-> IF i = 0 THEN NewAssetState ELSE NoObj]
    /\ asset = 0
    /\ pc = [t \in Threads |-> IF t = "driver" THEN "d_check" ELSE "idle"]
    /\ self = [t \in Threads |-> Null]
    /\ rnd = [t \in Threads |-> NoDraw]
    /\ steps = 0
    /\ last = [ op |-> "init", by |-> "main", ret |-> NoReturn,
                pre_mon |-> TRUE, pre_steps |-> 0 ]

InitBatch ==
    /\ pred = NewPredictor
    /\ presult = NoResult("init", 0)

\* either program, freshly started
Init ==
    /\ variant \in {"live", "batch"}
    /\ InitLive
    /\ InitBatch

\* handlers as atomic calls
Next ==
    \/ ReqUpdate
    \/ DriverUpdate
    \/ DriverSkip
    \/ ReqGetData
    \/ ReqStart
    \/ ReqStop
    \/ ReqReset
    \/ Predict
    \/ PredictorReset

Spec == Init /\ [][Next]_vars

InitConc ==
    /\ variant = "live"
    /\ InitLive
    /\ InitBatch

\* the live program with its two threads interleaved statement by statement
NextConc ==
    \/ ReqCallUpdate
    \/ ReqGetData
    \/ ReqStart
    \/ ReqStop
    \/ ReqReset
    \/ DriverCheck
    \/ DriverCallUpdate
    \/ DriverSleep
    \/ \E t \in Threads : UpdateStatement(t)
    \/ \E t \in Threads : UpdateReturn(t)

SpecConc == InitConc /\ [][NextConc]_vars

----------------------------------------------------------------------------
(* Properties *)

\* the object the global names
A == heap[asset]

LiveAccumulatorsInRange ==
    /\ 0 <= A.fatigue /\ A.fatigue <= FATIGUE_MAX
    /\ 0 <= A.creep /\ A.creep <= CREEP_MAX
    /\ 0 <= A.corrosion /\ A.corrosion <= CORROSION_MAX
    /\ 0 <= A.crack /\ A.crack <= CRACK_MAX

\* C1: from the constructed state on, after every update() call each of the
\* four accumulators lies in its declared range, lower and upper bound alike:
\* fatigue in [0, 0.5], creep in [0, 0.02], corrosion in [0, 0.3], crack in
\* [0, 0.4].
C1_AccumulatorsInRange ==
    variant = "live" => LiveAccumulatorsInRange

\* C2 as stated: an update request made while the monitoring flag is false
\* changes nothing: the accumulators, health, failure probability and decision
\* are as before, and the snapshot it returns is the one of the unchanged state.
C2_PausedUpdateIsNoOp ==
    [][(ReqUpdate /\ ~A.is_monitoring) =>
          /\ heap'[asset'] = heap[asset]
          /\ last'.ret = Data(GetData(heap[asset]))]_vars

\* new = min(cap, old + d) for some d in [lo, hi]
Stepped(old, new, lo, hi, cap) ==
    /\ new <= cap
    /\ \/ lo <= new - old /\ new - old <= hi
       \/ new = cap /\ old + hi >= cap

\* p = max(0, min(1, (1 - health) * 0.8 + n)) for some n in [-0.05, 0.05]
NoisyRisk(health, p) ==
    LET base == ((100000000 - health) * 8) \div 10
    IN  /\ 0 <= p /\ p <= 100000000
        /\ \/ base - 5000000 <= p /\ p <= base + 5000000
           \/ p = 0 /\ base - 5000000 <= 0
           \/ p = 100000000 /\ base + 5000000 >= 100000000

\* C2 as amended: an update request made while the monitoring flag is false is
\* served like any other: every accumulator moves by its bounded increment
\* under its upper clamp, health, failure probability, expected cost and
\* decision are recomputed from the new values, and the snapshot returned is
\* the one of the new state; only the monitoring flag stays as it was, false.
C2_PausedUpdateRunsPipeline ==
    [][(ReqUpdate /\ ~A.is_monitoring) =>
          LET o == heap'[asset']
          IN  /\ o.is_monitoring = FALSE
              /\ Stepped(A.fatigue, o.fatigue, -5000, 10000, 500000)
              /\ Stepped(A.creep, o.creep, -100, 300, 20000)
              /\ Stepped(A.corrosion, o.corrosion, -2000, 5000, 300000)
              /\ Stepped(A.crack, o.crack, -3000, 8000, 400000)
              /\ o.health = Max(10000000, Min(100000000,
                     100000000 - (30 * o.fatigue + 25 * o.creep
                                  + 20 * o.corrosion + 25 * o.crack)))
              /\ NoisyRisk(o.health, o.failure_prob)
              /\ o.expected_cost = 10 * o.failure_prob
              /\ o.decision = (IF o.expected_cost > 50000000
                               THEN "IMMEDIATE_INSPECTION" ELSE "CONTINUE_OPERATION")
              /\ last'.ret.kind = "data"
              /\ last'.ret.data.fatigue = o.fatigue
              /\ last'.ret.data.health = o.health
              /\ last'.ret.data.decision = o.decision
              /\ last'.ret.data.is_monitoring = FALSE]_vars

C2_Witness ==
    /\ last.op = "update" /\ last.by = "req" /\ last.pre_mon = FALSE
    /\ last.pre_steps = 0 /\ ~A.is_monitoring
    /\ A.fatigue # 120000 /\ A.health # 85000000

\* C3 as stated: reset() leaves the monitoring flag as it found it.
C3_ResetKeepsMonitoring ==
    last.op = "reset" => A.is_monitoring = last.pre_mon

\* C3 as amended: after reset() the monitor is MONITORING, whether it was
\* MONITORING or PAUSED before.
C3_ResetStartsMonitoring ==
    last.op = "reset" => A.is_monitoring = TRUE

C3_Witness ==
    last.op = "reset" /\ last.pre_mon = FALSE /\ A.is_monitoring = TRUE

\* update() of thread t has written to its object and has not returned
MidUpdate(t) == pc[t] \in MidUpdateLabels

\* a step of thread t that executes a get_data read, a reset, start or stop,
\* or a statement of update()
OpStep(t) ==
    IF t = "req"
    THEN \/ ReqGetData \/ ReqStart \/ ReqStop \/ ReqReset
         \/ UpdateStatement("req") \/ UpdateReturn("req")
    ELSE \/ UpdateStatement("driver") \/ UpdateReturn("driver")

\* C4: operations on the shared asset never overlap: while one thread is
\* inside update(), between its first write and its return, the other thread
\* executes no read of the asset, no reset, start or stop and no statement of
\* an update of its own.
C4_MutualExclusion ==
    [][\A t \in Threads : MidUpdate(t) =>
          \A u \in Threads \ {t} : ~OpStep(u)]_vars

\* C5: in every state, the freshly constructed and the freshly reset one
\* included, the stored health is the clamped weighted sum of the four
\* accumulators stored in the same state.
C5_HealthIsRecomputed ==
    variant = "live" =>
        A.health = Max(LIVE_HEALTH_FLOOR,
                       Min(ONE, ONE - (30 * A.fatigue + 25 * A.creep
                                       + 20 * A.corrosion + 25 * A.crack)))

\* C6: a predict() / update_damage() call that fails on a missing field
\* leaves fatigue, creep, corrosion, crack and prev_load as they were.
C6_FailedCallChangesNothing ==
    [][(Predict /\ ~presult'.ok) => pred' = pred]_vars

\* C7: while the monitor is PAUSED (stop() completed, no start() since), no
\* statement the background driver executes changes the asset.
C7_DriverOnlyWhileMonitoring ==
    [][(~A.is_monitoring /\ UpdateStatement("driver")) =>
          heap'[asset'] = heap[asset]]_vars

\* the decision and colour the policy gives an expected cost (in 0.01 rupee)
Policy(cost, decision, color) ==
    /\ cost > 50000000 => decision = "IMMEDIATE_INSPECTION" /\ color = "danger"
    /\ cost <= 50000000 => decision = "CONTINUE_OPERATION" /\ color = "success"

\* C8: every decision made maps an expected cost above 500_000 to
\* IMMEDIATE_INSPECTION / danger, costs above 2_000_000 included, and a cost of
\* at most 500_000 to CONTINUE_OPERATION / success, where the expected cost is
\* the probability times 10_000_000.
C8_DecisionPolicy ==
    /\ (variant = "batch" /\ presult.op = "predict" /\ presult.ok) =>
          /\ presult.expected_cost = 10 * presult.failure_probability
          /\ Policy(presult.expected_cost, presult.decision, presult.color)
    /\ (variant = "live" /\ last.op = "update") =>
          /\ A.expected_cost = 10 * A.failure_prob
          /\ Policy(A.expected_cost, A.decision, A.decision_color)

C8_Witness ==
    /\ variant = "batch" /\ presult.op = "predict" /\ presult.ok
    /\ presult.expected_cost = 300000000
    /\ presult.decision = "IMMEDIATE_INSPECTION" /\ presult.color = "danger"

\* the construction defaults of the four accumulators
DefaultDamage(d) ==
    d.fatigue = 120000 /\ d.creep = 8000 /\ d.corrosion = 150000 /\ d.crack = 90000

\* C9: after reset(), whatever updates came before, the accumulators are the
\* construction defaults 0.12, 0.008, 0.15, 0.09, and a get_data read with no
\* update since the reset returns those values.
C9_ResetRestoresDefaults ==
    variant = "live" =>
        /\ last.op = "reset" => steps = 0 /\ DefaultDamage(A)
        /\ (last.op = "get_data" /\ steps = 0) => DefaultDamage(last.ret.data)

C9_Witness ==
    last.op = "reset" /\ last.pre_steps > 0 /\ DefaultDamage(A)

ClaimedLoadDelta(l, prev) ==
    IF prev = None THEN 0 ELSE 200 * Abs(l - prev[1])

\* C12: the load-delta term of a successful update_damage is zero for the
\* first sample after construction or reset() and 0.02 x |load - load of the
\* preceding sample| for every later one, the preceding sample being the one
\* handed to the previous call or the last one processed without error; and
\* afterwards prev_load is the load of the sample just processed.
C12_LoadDeltaFollowsPrecedingSample ==
    [][(Predict /\ presult'.ok) =>
          /\ pred'.prev_load = presult'.load
          /\ \/ presult'.load_delta =
                   ClaimedLoadDelta(presult'.load[1], presult.load)
             \/ presult'.load_delta =
                   ClaimedLoadDelta(presult'.load[1], presult.done_load)]_vars

\* C13: in every state of the live asset, the freshly constructed and the
\* freshly reset one included, and in every snapshot get_data returns, the
\* decision and colour are the ones the policy gives the expected cost of the
\* same state: IMMEDIATE_INSPECTION / danger above 500_000, otherwise
\* CONTINUE_OPERATION / success.
C13_DecisionMatchesCost ==
    variant = "live" =>
        /\ Policy(A.expected_cost, A.decision, A.decision_color)
        /\ last.ret.kind = "data" =>
              Policy(A.expected_cost,
                     last.ret.data.decision, last.ret.data.decision_color)

\* C14: SCHEDULE_REPAIR and the colour warning are unreachable: the decision
\* stored in the live asset, returned in a snapshot or returned by predict()
\* is always IMMEDIATE_INSPECTION / danger or CONTINUE_OPERATION / success,
\* whatever the failure probability.
C14_NeverScheduleRepair ==
    /\ variant = "live" =>
          /\ A.decision \in {"IMMEDIATE_INSPECTION", "CONTINUE_OPERATION"}
          /\ A.decision_color \in {"danger", "success"}
          /\ last.ret.kind = "data" =>
                /\ last.ret.data.decision # "SCHEDULE_REPAIR"
                /\ last.ret.data.decision_color # "warning"
    /\ (variant = "batch" /\ presult.op = "predict" /\ presult.ok) =>
          /\ presult.decision \in {"IMMEDIATE_INSPECTION", "CONTINUE_OPERATION"}
          /\ presult.color \in {"danger", "success"}

\* a live update whose expected cost exceeds the repair threshold too: the
\* second branch of the policy would apply, and the first has taken it
C14_Witness ==
    /\ variant = "live" /\ last.op = "update"
    /\ A.expected_cost > REPAIR_COST
    /\ A.decision = "IMMEDIATE_INSPECTION" /\ A.decision_color = "danger"

====
